---- MODULE Spec2Model ----
(***************************************************************************)
(* Model of the euler-ai IDE front end: the composer's diff / review       *)
(* workflow (components/composer/Composer.js) and the completion request   *)
(* rate limiter (components/codeCompletion/config.js).                     *)
(*                                                                         *)
(* Text representation.  A JavaScript string is modelled by the sequence   *)
(* of its lines, exactly as String.prototype.split('\n') returns them, so  *)
(* a text is a non-empty sequence of lines and it ends with '\n' iff it    *)
(* has at least two lines and the last one is empty.  A line is a sequence *)
(* of tokens; a token is one character, or one of the substrings the code  *)
(* looks for: "F" is a fence of three backticks, "I" is the word I've,     *)
(* "M" is the word maintained, "N" is the notice                           *)
(* '\ No newline at end of file', and "undefined" is the text JavaScript   *)
(* produces when undefined is concatenated to a string.                    *)
(***************************************************************************)
EXTENDS Integers, Sequences, FiniteSets, TLC

Max(x, y) == IF x >= y THEN x ELSE y

Min(x, y) == IF x <= y THEN x ELSE y

EmptyLine == <<>>

(* the text "" : ''.split('\n') is [''] *)
EmptyText == <<EmptyLine>>

(* String.prototype.startsWith for a one-token prefix *)
StartsWith(line, tok) == Len(line) >= 1 /\ line[1] = tok

(* String.prototype.includes for a one-token needle *)
Includes(line, tok) == \E i \in 1..Len(line) : line[i] = tok

(* line.split(tok)[0] : the part of the line before the first tok *)
SplitFirst(line, tok) ==
    IF Includes(line, tok)
    THEN LET k == CHOOSE i \in 1..Len(line) :
                     line[i] = tok /\ \A m \in 1..(i - 1) : line[m] # tok
         IN SubSeq(line, 1, k - 1)
    ELSE line

(* String.prototype.trim : drop leading and trailing blanks *)
Trim(line) ==
    LET keep == {i \in 1..Len(line) : line[i] # " "}
    IN IF keep = {} THEN EmptyLine
       ELSE LET lo == CHOOSE i \in keep : \A m \in keep : i <= m
                hi == CHOOSE i \in keep : \A m \in keep : i >= m
            IN SubSeq(line, lo, hi)

(* Array.prototype.join('\n') followed by reading the result as a text:   *)
(* [].join('\n') is the empty string                                       *)
Join(ls) == IF ls = <<>> THEN EmptyText ELSE ls

(* String.prototype.endsWith('\n') *)
EndsWithNewline(text) == Len(text) >= 2 /\ text[Len(text)] = EmptyLine

(* if (!code.endsWith('\n')) code += '\n' *)
EnsureTrailingNewline(text) ==
    IF EndsWithNewline(text) THEN text ELSE Append(text, EmptyLine)

(***************************************************************************)
(* The diff library (diff@5.1.0, imported from a CDN): createTwoFilesPatch *)
(* followed by parsePatch, on texts that end with a newline.  It is a line *)
(* diff: a longest-common-subsequence edit script, removals before         *)
(* additions inside a change, cut into hunks with `context` unchanged      *)
(* lines around every change.                                              *)
(***************************************************************************)
Context == 2

(* the lines the library compares: every line of a newline-terminated text *)
PatchLines(text) == SubSeq(text, 1, Len(text) - 1)

RECURSIVE LcsLen(_, _, _, _)
LcsLen(a, b, i, j) ==
    IF i > Len(a) \/ j > Len(b) THEN 0
    ELSE IF a[i] = b[j] THEN 1 + LcsLen(a, b, i + 1, j + 1)
    ELSE Max(LcsLen(a, b, i + 1, j), LcsLen(a, b, i, j + 1))

RECURSIVE EditScript(_, _, _, _)
EditScript(a, b, i, j) ==
    IF i > Len(a) /\ j > Len(b) THEN <<>>
    ELSE IF i > Len(a)
         THEN <<[tag |-> "+", text |-> b[j]]>> \o EditScript(a, b, i, j + 1)
    ELSE IF j > Len(b)
         THEN <<[tag |-> "-", text |-> a[i]]>> \o EditScript(a, b, i + 1, j)
    ELSE IF a[i] = b[j]
         THEN <<[tag |-> " ", text |-> a[i]]>> \o EditScript(a, b, i + 1, j + 1)
    ELSE IF LcsLen(a, b, i + 1, j) >= LcsLen(a, b, i, j + 1)
         THEN <<[tag |-> "-", text |-> a[i]]>> \o EditScript(a, b, i + 1, j)
    ELSE <<[tag |-> "+", text |-> b[j]]>> \o EditScript(a, b, i, j + 1)

(* inside every change the removed lines come before the added lines *)
RECURSIVE RemovalsFirst(_)
RemovalsFirst(s) ==
    IF s = <<>> THEN <<>>
    ELSE IF Head(s).tag = " " THEN <<Head(s)>> \o RemovalsFirst(Tail(s))
    ELSE LET n == CHOOSE k \in 1..Len(s) :
                      /\ \A m \in 1..k : s[m].tag # " "
                      /\ (k = Len(s) \/ s[k + 1].tag = " ")
             blk == SubSeq(s, 1, n)
         IN SelectSeq(blk, LAMBDA e : e.tag = "-")
              \o SelectSeq(blk, LAMBDA e : e.tag = "+")
              \o RemovalsFirst(SubSeq(s, n + 1, Len(s)))

(* every entry of the script is put into a hunk *)
InHunkAlways(s, i) == TRUE

(* entry i of the script belongs to a hunk: it is a change or lies within  *)
(* `context` lines of one                                                  *)
InHunk(s, i) ==
    \E c \in 1..Len(s) : s[c].tag # " " /\ c - i <= Context /\ i - c <= Context

HunkEnd(s, lo) ==
    CHOOSE hi \in lo..Len(s) :
        /\ \A m \in lo..hi : InHunk(s, m)
        /\ (hi = Len(s) \/ ~InHunk(s, hi + 1))

HunkOf(s, lo, hi) ==
    [oldStart |-> 1 + Cardinality({k \in 1..(lo - 1) : s[k].tag # "+"}),
     oldLines |-> Cardinality({k \in lo..hi : s[k].tag # "+"}),
     lines    |-> [k \in 1..(hi - lo + 1) |->
                      <<s[lo + k - 1].tag>> \o s[lo + k - 1].text]]

RECURSIVE BuildHunks(_, _)
BuildHunks(s, i) ==
    IF i > Len(s) THEN <<>>
    ELSE IF ~InHunk(s, i) THEN BuildHunks(s, i + 1)
    ELSE LET hi == HunkEnd(s, i)
         IN <<HunkOf(s, i, hi)>> \o BuildHunks(s, hi + 1)

(* parsePatch(createTwoFilesPatch(.., oldStr, newStr, .., {context: 2}))[0].hunks *)
createTwoFilesPatch(oldStr, newStr) ==
    BuildHunks(RemovalsFirst(EditScript(PatchLines(oldStr), PatchLines(newStr), 1, 1)), 1)

(***************************************************************************)
(* Composer.js : diff processing functions                                 *)
(***************************************************************************)
(* a cleanLine that cuts at "I've" only *)
cleanLineKeepFence(line) ==
    IF Includes(line, "F") \/ Includes(line, "I") \/ Includes(line, "M")
    THEN Trim(SplitFirst(line, "I"))
    ELSE line

cleanLine(line) ==
    IF Includes(line, "F") \/ Includes(line, "I") \/ Includes(line, "M")
    THEN Trim(SplitFirst(SplitFirst(line, "F"), "I"))
    ELSE line

cleanHunkLines(hl) ==
    LET kept == SelectSeq(hl, LAMBDA l : ~Includes(l, "N"))
    IN [k \in 1..Len(kept) |-> cleanLine(kept[k])]

cleanDiffOutput(diff) ==
    [h \in 1..Len(diff) |-> [diff[h] EXCEPT !.lines = cleanHunkLines(@)]]

generateDiff(currentCode, proposedCode) ==
    cleanDiffOutput(createTwoFilesPatch(EnsureTrailingNewline(currentCode),
                                        EnsureTrailingNewline(proposedCode)))

(* lines[currentLine], currentLine counted from 0; out of range it is      *)
(* undefined                                                               *)
HasLine(lines, currentLine) == currentLine < Len(lines)

(* '-' + lines[currentLine] *)
MinusLine(lines, currentLine) ==
    IF HasLine(lines, currentLine) THEN <<"-">> \o lines[currentLine + 1]
    ELSE <<"-", "undefined">>

(* result.push(lines[currentLine]) as join('\n') renders it: undefined     *)
(* becomes the empty string                                                *)
PlainLine(lines, currentLine) ==
    IF HasLine(lines, currentLine) THEN lines[currentLine + 1] ELSE EmptyLine

(* while (currentLine < limit) { result.push(lines[currentLine]); currentLine++ } *)
RECURSIVE CopyLines(_, _, _)
CopyLines(lines, st, limit) ==
    IF st.currentLine < limit
    THEN CopyLines(lines,
                   [result      |-> Append(st.result, PlainLine(lines, st.currentLine)),
                    currentLine |-> st.currentLine + 1],
                   limit)
    ELSE st

(* hunk.lines.forEach(line => ...) *)
RECURSIVE ProjectHunkLines(_, _, _)
ProjectHunkLines(hl, lines, st) ==
    IF hl = <<>> THEN st
    ELSE LET line == Head(hl)
             nxt  == IF StartsWith(line, "-")
                     THEN [result      |-> Append(st.result, MinusLine(lines, st.currentLine)),
                           currentLine |-> st.currentLine + 1]
                     ELSE IF StartsWith(line, "+")
                     THEN [result      |-> Append(st.result, <<"+">> \o Tail(line)),
                           currentLine |-> st.currentLine]
                     ELSE [result      |-> Append(st.result, PlainLine(lines, st.currentLine)),
                           currentLine |-> st.currentLine + 1]
         IN ProjectHunkLines(Tail(hl), lines, nxt)

(* diff.hunks.forEach(hunk => ...) *)
RECURSIVE ProjectHunks(_, _, _)
ProjectHunks(hunks, lines, st) ==
    IF hunks = <<>> THEN st
    ELSE LET hunk == Head(hunks)
             pre  == CopyLines(lines, st, hunk.oldStart - 1)
         IN ProjectHunks(Tail(hunks), lines, ProjectHunkLines(hunk.lines, lines, pre))

(* a projector that stops after the last hunk, without the final            *)
(* "add remaining unchanged lines" loop                                    *)
prepareSourceDiffViewNoRemaining(originalCode, diff) ==
    Join(ProjectHunks(diff, originalCode, [result |-> <<>>, currentLine |-> 0]).result)

prepareSourceDiffView(originalCode, diff) ==
    LET lines == originalCode
        body  == ProjectHunks(diff, lines, [result |-> <<>>, currentLine |-> 0])
    IN Join(CopyLines(lines, body, Len(lines)).result)

(* the text the source-view Apply handler writes into the editor:          *)
(* diffView.split('\n').filter(l => !l.startsWith('-'))                    *)
(*         .map(l => l.startsWith('+') ? l.substring(1) : l).join('\n')    *)
sourceViewApplied(diffView) ==
    LET kept == SelectSeq(diffView, LAMBDA l : ~StartsWith(l, "-"))
    IN Join([k \in 1..Len(kept) |->
                IF StartsWith(kept[k], "+") THEN Tail(kept[k]) ELSE kept[k]])

(***************************************************************************)
(* State.                                                                  *)
(*   d*      : the diff functions applied to one pair of texts             *)
(*   editor .. edits : the composer (Composer.js)                          *)
(*   rateLimiter .. resets : the completion manager (config.js)            *)
(*   runBtnDisabled .. submissions : the compiler (CompilerManager.js)     *)
(*   localStorage .. lastCall : storage and theme (LocalStorage.js,        *)
(*                              ThemeManager.js)                           *)
(*   messageHistory .. chatSends : the chat (ErrorChatButton.js)           *)
(***************************************************************************)
VARIABLES dPhase, dOriginal, dProposed, dDiff, dView, dEditor,
          editor, previews, currentActivePreview, inFlight, chatPreviews,
          submitDisabled, edits,
          rateLimiter, completionCache, promises, loops, now, sent, resets,
          runBtnDisabled, sqliteAdditionalFiles, submissions,
          localStorage, storageFails, systemTheme, page, lastCall,
          messageHistory, chatCalls, chatSubmitDisabled, chatSends

dvars == <<dPhase, dOriginal, dProposed, dDiff, dView, dEditor>>

cvars == <<editor, previews, currentActivePreview, inFlight, chatPreviews,
           submitDisabled, edits>>

lvars == <<rateLimiter, completionCache, promises, loops, now, sent, resets>>

pvars == <<runBtnDisabled, sqliteAdditionalFiles, submissions>>

svars == <<localStorage, storageFails, systemTheme, page, lastCall>>

hvars == <<messageHistory, chatCalls, chatSubmitDisabled, chatSends>>

vars == <<dvars, cvars, lvars, pvars, svars, hvars>>

(* null, for a text-valued variable: no text is the empty sequence *)
Null == <<>>

(* the parts of the state a specification does not use stay as constructed *)
DiffIdle ==
    /\ dPhase = "idle"
    /\ dOriginal = Null
    /\ dProposed = Null
    /\ dDiff = <<>>
    /\ dView = Null
    /\ dEditor = Null

ComposerIdle ==
    /\ editor = EmptyText
    /\ previews = <<>>
    /\ currentActivePreview = 0
    /\ inFlight = <<>>
    /\ chatPreviews = {}
    /\ submitDisabled = FALSE
    /\ edits = 0

(* the completion manager is not loaded *)
LimiterIdle ==
    /\ rateLimiter = <<>>
    /\ completionCache = {}
    /\ promises = <<>>
    /\ loops = <<>>
    /\ now = 0
    /\ sent = <<>>
    /\ resets = 0

(* nothing was submitted to the compiler *)
PollIdle ==
    /\ runBtnDisabled = FALSE
    /\ sqliteAdditionalFiles = FALSE
    /\ submissions = <<>>

(* the storage and the theme are not used *)
StorageIdle ==
    /\ localStorage = <<>>
    /\ storageFails = FALSE
    /\ systemTheme = "light"
    /\ page = <<>>
    /\ lastCall = <<>>

(* the chat panel was not used *)
ChatIdle ==
    /\ messageHistory = <<>>
    /\ chatCalls = <<>>
    /\ chatSubmitDisabled = FALSE
    /\ chatSends = 0

(***************************************************************************)
(* The diff functions on their own: an original text and a proposed code   *)
(* are drawn from bounded sets, and the steps generate the diff, project   *)
(* it onto the original (View in Source) and apply it in either view.      *)
(***************************************************************************)
MaxLines == 3

(* lines of the original text: plain, starting with a marker character,   *)
(* indented and holding one of the words cleanDiffOutput looks for         *)
OrigLineSet == {<<"a">>, <<"-", "a">>, <<"+", "b">>, <<" ", "+", "M">>, <<"a", "F">>}

(* lines of the proposed code (the regular expression that extracts it     *)
(* stops at the first fence, so it holds none); the indented line is one   *)
(* the original can hold too, so that it can be an unchanged line          *)
PropLineSet == {<<"a">>, <<"b">>, <<"+", "b">>, <<"b", "I", "a">>, <<" ", "+", "M">>}

LineSeqs(S, n) == UNION {[1..k -> S] : k \in 0..n}

(* texts of at most n lines over S, with and without a final newline *)
TextsOver(S, n) ==
    {Append(ls, EmptyLine) : ls \in LineSeqs(S, n)}
        \cup {Join(ls) : ls \in LineSeqs(S, n)}

DiffInit ==
    /\ dPhase = "input"
    /\ dOriginal \in TextsOver(OrigLineSet, MaxLines)
    /\ dProposed \in TextsOver(PropLineSet, MaxLines) \cup {dOriginal}
    /\ dDiff = <<>>
    /\ dView = EmptyText
    /\ dEditor = dOriginal
    /\ ComposerIdle
    /\ LimiterIdle
    /\ PollIdle
    /\ StorageIdle
    /\ ChatIdle

(* const diff = generateDiff(currentCode, proposedCode) *)
DiffGenerate ==
    /\ dPhase = "input"
    /\ dDiff' = generateDiff(dOriginal, dProposed)
    /\ dPhase' = "proposed"
    /\ UNCHANGED <<dOriginal, dProposed, dView, dEditor, cvars, lvars, pvars, svars, hvars>>

(* View in Source: the diff is projected onto the editor content *)
DiffViewInSource ==
    /\ dPhase = "proposed"
    /\ dView' = prepareSourceDiffView(dEditor, dDiff)
    /\ dEditor' = dView'
    /\ dPhase' = "source"
    /\ UNCHANGED <<dOriginal, dProposed, dDiff, cvars, lvars, pvars, svars, hvars>>

(* Apply with the source-view handler *)
DiffApplySource ==
    /\ dPhase = "source"
    /\ dEditor' = sourceViewApplied(dView)
    /\ dPhase' = "appliedSource"
    /\ UNCHANGED <<dOriginal, dProposed, dDiff, dView, cvars, lvars, pvars, svars, hvars>>

(* Apply with the composer-view handler *)
DiffApplyComposer ==
    /\ dPhase = "proposed"
    /\ dEditor' = dProposed
    /\ dPhase' = "appliedComposer"
    /\ UNCHANGED <<dOriginal, dProposed, dDiff, dView, cvars, lvars, pvars, svars, hvars>>

DiffNext == DiffGenerate \/ DiffViewInSource \/ DiffApplySource \/ DiffApplyComposer

SpecDiff == DiffInit /\ [][DiffNext]_vars

(***************************************************************************)
(* Composer.js : sendMessage and the diff preview it builds.               *)
(* A preview is the closure of one sendMessage call: currentCode,          *)
(* proposedCode, the let variables isInSourceView, originalCode,           *)
(* isReverted and originalCodeState, the disabled flags of its three       *)
(* buttons and which onclick handler the Apply and Reject buttons hold     *)
(* ("composer": the ones set at creation, "source": the ones set by View   *)
(* in Source, "restored": the ones set by View in Editor).  `inactive` is  *)
(* the CSS class, `attached` says the buttons are still the ones the       *)
(* handlers were set on (disablePreviousPreview replaces them by clones,   *)
(* and cloneNode copies no onclick property).                              *)
(* Three fields record what the preview has told the user:                 *)
(* reviewState is the last of 'Changes applied successfully.',             *)
(* 'Changes reverted.', 'Changes rejected.' it put into the chat           *)
(* ("proposed" before any), preApply the editor content when the last      *)
(* Apply was clicked, editedSinceApply whether the user typed since then.  *)
(* preView is the editor content when View in Source last put the marker   *)
(* view in.                                                                *)
(***************************************************************************)
MaxPreviews == 2

(* how many times the user types into the editor in one session *)
MaxEdits == 1

EditorTexts ==
    {<<<<"a">>, <<"b">>, EmptyLine>>, <<<<"a">>>>}

(* the texts of AI responses, as tokens: "F" is a fence of three           *)
(* backticks, "\n" a line break, any other token a piece of text; a        *)
(* fenced block after some text, a bare fenced block, plain text, and a    *)
(* one-line span between two fences                                        *)
Responses ==
    {<<"t", "\n", "F", "py", "\n", "a", "\n", "c", "\n", "F", "\n", "t">>,
     <<"F", "\n", "b", "\n", "F">>,
     <<"t">>,
     <<"F", "b", "F">>}

(* the first index from `from` on at which r holds tok, 0 if there is none *)
IndexOf(r, tok, from) ==
    IF \E i \in from..Len(r) : r[i] = tok
    THEN CHOOSE i \in from..Len(r) :
            r[i] = tok /\ \A j \in from..(i - 1) : r[j] # tok
    ELSE 0

(* a match that needs no line break after the opening fence *)
codeMatchAnyFence(r) ==
    LET i == IndexOf(r, "F", 1)
        k == IF i = 0 THEN 0 ELSE IndexOf(r, "F", i + 1)
    IN  IF k = 0 THEN [matched |-> FALSE, group |-> <<>>]
        ELSE [matched |-> TRUE, group |-> SubSeq(r, i + 1, k - 1)]

(* aiResponse.match(/```[\s\S]*?\n([\s\S]*?)```/): the leftmost fence, the  *)
(* first line break after it and the first fence after that; group is     *)
(* what lies between the last two                                         *)
codeMatch(r) ==
    LET i == IndexOf(r, "F", 1)
        j == IF i = 0 THEN 0 ELSE IndexOf(r, "\n", i + 1)
        k == IF j = 0 THEN 0 ELSE IndexOf(r, "F", j + 1)
    IN  IF k = 0 THEN [matched |-> FALSE, group |-> <<>>]
        ELSE [matched |-> TRUE, group |-> SubSeq(r, j + 1, k - 1)]

(* a string of tokens as a text: split('\n') *)
RECURSIVE splitLines(_)
splitLines(toks) ==
    LET j == IndexOf(toks, "\n", 1)
    IN  IF j = 0 THEN <<toks>>
        ELSE <<SubSeq(toks, 1, j - 1)>> \o splitLines(SubSeq(toks, j + 1, Len(toks)))

(* the codes the responses propose: "a\nc\n" and "b\n" *)
(* what the editor holds when the composer is opened *)
InitialText == <<<<"a">>>>

ProposedCodes ==
    {splitLines(codeMatch(r).group) : r \in {x \in Responses : codeMatch(x).matched}}

NewPreview(currentCode, proposedCode) ==
    [currentCode       |-> currentCode,
     proposedCode      |-> proposedCode,
     isInSourceView    |-> FALSE,
     originalCode      |-> Null,
     isReverted        |-> FALSE,
     originalCodeState |-> Null,
     viewDisabled      |-> FALSE,
     acceptDisabled    |-> FALSE,
     rejectDisabled    |-> FALSE,
     acceptHandler     |-> "composer",
     rejectHandler     |-> "composer",
     inactive          |-> FALSE,
     attached          |-> TRUE,
     reviewState       |-> "proposed",
     preApply          |-> Null,
     editedSinceApply  |-> FALSE,
     overtook          |-> FALSE,
     preView           |-> Null]

(* const diff = generateDiff(currentCode, proposedCode) *)
previewDiff(p) == generateDiff(p.currentCode, p.proposedCode)

(* const diffView = prepareSourceDiffView(originalCode, diff) *)
previewDiffView(p) == prepareSourceDiffView(p.originalCode, previewDiff(p))

(* Every handler maps the preview and the editor content to the new        *)
(* preview, the new editor content and the message it adds to the chat.    *)

(* a View in Editor that puts back the code captured when the message was  *)
(* sent instead of the content saved by View in Source                     *)
viewInSourceClickToCurrentCode(p, ed) ==
    IF ~p.isInSourceView
    THEN LET q == [p EXCEPT !.originalCode = ed,
                            !.isInSourceView = TRUE,
                            !.acceptHandler = "source",
                            !.rejectHandler = "source"]
         IN [p |-> q, ed |-> previewDiffView(q), say |-> "none"]
    ELSE [p   |-> [p EXCEPT !.isInSourceView = FALSE,
                            !.acceptHandler = "restored",
                            !.rejectHandler = "restored"],
          ed  |-> p.currentCode,
          say |-> "none"]

(* viewInSourceButton.onclick *)
viewInSourceClick(p, ed) ==
    IF ~p.isInSourceView
    THEN LET q == [p EXCEPT !.originalCode = ed,
                            !.isInSourceView = TRUE,
                            !.acceptHandler = "source",
                            !.rejectHandler = "source"]
         IN [p |-> q, ed |-> previewDiffView(q), say |-> "none"]
    ELSE [p   |-> [p EXCEPT !.isInSourceView = FALSE,
                            !.acceptHandler = "restored",
                            !.rejectHandler = "restored"],
          ed  |-> p.originalCode,
          say |-> "none"]

(* the text each Apply branch writes and the state both share *)
applied(p, ed, newText) ==
    [p   |-> [p EXCEPT !.originalCodeState = ed,
                       !.isReverted = TRUE,
                       !.viewDisabled = TRUE,
                       !.rejectDisabled = TRUE],
     ed  |-> newText,
     say |-> "applied"]

(* a Revert that puts back the code captured when the message was sent     *)
(* instead of the editor content stored by Apply                           *)
revertedToCurrentCode(p) ==
    [p   |-> [p EXCEPT !.isReverted = FALSE,
                       !.viewDisabled = FALSE,
                       !.rejectDisabled = FALSE],
     ed  |-> p.currentCode,
     say |-> "reverted"]

reverted(p) ==
    [p   |-> [p EXCEPT !.isReverted = FALSE,
                       !.viewDisabled = FALSE,
                       !.rejectDisabled = FALSE],
     ed  |-> p.originalCodeState,
     say |-> "reverted"]

(* acceptButton.onclick as set when the preview is created *)
acceptComposerView(p, ed) ==
    IF ~p.isReverted THEN applied(p, ed, p.proposedCode) ELSE reverted(p)

(* acceptButton.onclick as set by View in Source *)
acceptSourceView(p, ed) ==
    IF ~p.isReverted
    THEN applied(p, ed, sourceViewApplied(previewDiffView(p)))
    ELSE reverted(p)

(* acceptButton.onclick as set by View in Editor *)
acceptRestored(p, ed) ==
    [p |-> p, ed |-> p.proposedCode, say |-> "applied"]

allDisabled(p) ==
    [p EXCEPT !.viewDisabled = TRUE, !.acceptDisabled = TRUE, !.rejectDisabled = TRUE]

(* rejectButton.onclick as set when the preview is created *)
rejectComposerView(p, ed) ==
    [p |-> allDisabled(p), ed |-> ed, say |-> "rejected"]

(* rejectButton.onclick as set by View in Source *)
rejectSourceView(p, ed) ==
    [p |-> allDisabled(p), ed |-> p.originalCode, say |-> "rejected"]

(* rejectButton.onclick as set by View in Editor *)
rejectRestored(p, ed) ==
    [p |-> p, ed |-> ed, say |-> "rejected"]

acceptClick(p, ed) ==
    CASE p.acceptHandler = "composer" -> acceptComposerView(p, ed)
      [] p.acceptHandler = "source"   -> acceptSourceView(p, ed)
      [] p.acceptHandler = "restored" -> acceptRestored(p, ed)

rejectClick(p, ed) ==
    CASE p.rejectHandler = "composer" -> rejectComposerView(p, ed)
      [] p.rejectHandler = "source"   -> rejectSourceView(p, ed)
      [] p.rejectHandler = "restored" -> rejectRestored(p, ed)

(* a disablePreviousPreview that only dims the previous preview and leaves *)
(* its buttons as they are                                                 *)
disablePreviousPreviewDimOnly(ps, cur) ==
    IF cur = 0 THEN ps
    ELSE [ps EXCEPT ![cur] = [@ EXCEPT !.inactive = TRUE]]

(* a disablePreviousPreview that disables the buttons of the previous      *)
(* preview and does not mark it inactive                                   *)
disablePreviousPreviewButtonsOnly(ps, cur) ==
    IF cur = 0 THEN ps
    ELSE [ps EXCEPT ![cur] = [allDisabled(@) EXCEPT !.attached = FALSE]]

disablePreviousPreview(ps, cur) ==
    IF cur = 0 THEN ps
    ELSE [ps EXCEPT ![cur] = [allDisabled(@) EXCEPT !.inactive = TRUE,
                                                    !.attached = FALSE]]

(* what the preview has told the user, after a handler ran *)
Told(r, edBefore) ==
    [r.p EXCEPT !.reviewState = IF r.say = "none" THEN @ ELSE r.say,
                !.preApply = IF r.say = "applied" THEN edBefore ELSE @,
                !.editedSinceApply = IF r.say = "applied" THEN FALSE ELSE @]

(* the preview after a click on View in Source or View in Editor *)
Viewed(p, r, edBefore) ==
    [Told(r, edBefore) EXCEPT
        !.preView = IF ~p.isInSourceView /\ r.p.isInSourceView THEN edBefore ELSE @]

ComposerInit ==
    /\ editor = InitialText
    /\ previews = <<>>
    /\ currentActivePreview = 0
    /\ inFlight = <<>>
    /\ chatPreviews = {}
    /\ submitDisabled = FALSE
    /\ edits = 0
    /\ DiffIdle
    /\ LimiterIdle
    /\ PollIdle
    /\ StorageIdle
    /\ ChatIdle

(* the user types into the main editor *)
UserEdit ==
    /\ \E t \in EditorTexts :
          /\ t # editor
          /\ editor' = t
    /\ edits < MaxEdits
    /\ edits' = edits + 1
    /\ previews' = [i \in 1..Len(previews) |->
                      IF previews[i].reviewState = "applied" /\ previews[i].attached
                      THEN [previews[i] EXCEPT !.editedSinceApply = TRUE]
                      ELSE previews[i]]
    /\ UNCHANGED <<currentActivePreview, inFlight, chatPreviews, submitDisabled, dvars, lvars, pvars, svars, hvars>>

(* sendMessage up to the await of fetch; the Submit button is disabled     *)
(* meanwhile, the Enter key is not.  aiResponse is the text the API will   *)
(* answer this request with, Null if the request is going to fail.         *)
SendClick ==
    /\ ~submitDisabled
    /\ Len(previews) + Len(inFlight) < MaxPreviews
    /\ \E r \in Responses \cup {Null} :
          inFlight' = Append(inFlight, [currentCode |-> editor, aiResponse |-> r])
    /\ submitDisabled' = TRUE
    /\ UNCHANGED <<editor, previews, currentActivePreview, chatPreviews, edits, dvars, lvars, pvars, svars, hvars>>

SendEnter ==
    /\ Len(previews) + Len(inFlight) < MaxPreviews
    /\ \E r \in Responses \cup {Null} :
          inFlight' = Append(inFlight, [currentCode |-> editor, aiResponse |-> r])
    /\ submitDisabled' = TRUE
    /\ UNCHANGED <<editor, previews, currentActivePreview, chatPreviews, edits, dvars, lvars, pvars, svars, hvars>>

Without(s, k) == SubSeq(s, 1, k - 1) \o SubSeq(s, k + 1, Len(s))

(* the response matches the code block pattern: a preview is built and     *)
(* shown.  overtook records that the response of an earlier message was    *)
(* still awaited when this one arrived.                                    *)
ReceiveCode ==
    \E k \in 1..Len(inFlight) :
        /\ inFlight[k].aiResponse # Null
        /\ codeMatch(inFlight[k].aiResponse).matched
        /\ LET proposedCode == splitLines(codeMatch(inFlight[k].aiResponse).group) IN
           previews' = Append(disablePreviousPreview(previews, currentActivePreview),
                              [NewPreview(inFlight[k].currentCode, proposedCode)
                                  EXCEPT !.overtook = (k > 1)])
        /\ currentActivePreview' = Len(previews) + 1
        /\ chatPreviews' = chatPreviews \cup {Len(previews) + 1}
        /\ inFlight' = Without(inFlight, k)
        /\ submitDisabled' = FALSE
        /\ UNCHANGED <<editor, edits, dvars, lvars, pvars, svars, hvars>>

(* the response does not match: only its text is shown *)
ReceiveText ==
    \E k \in 1..Len(inFlight) :
        /\ inFlight[k].aiResponse # Null
        /\ ~codeMatch(inFlight[k].aiResponse).matched
        /\ inFlight' = Without(inFlight, k)
        /\ submitDisabled' = FALSE
        /\ UNCHANGED <<editor, previews, currentActivePreview, chatPreviews, edits, dvars, lvars, pvars, svars, hvars>>

(* the request fails: the catch block shows the error *)
ReceiveError ==
    \E k \in 1..Len(inFlight) :
        /\ inFlight[k].aiResponse = Null
        /\ inFlight' = Without(inFlight, k)
        /\ submitDisabled' = FALSE
        /\ UNCHANGED <<editor, previews, currentActivePreview, chatPreviews, edits, dvars, lvars, pvars, svars, hvars>>

(* a click reaches a handler only on an enabled button that still has one *)
Clickable(i) == i \in 1..Len(previews) /\ previews[i].attached

Clicked(i, r) ==
    /\ previews' = [previews EXCEPT ![i] = Viewed(previews[i], r, editor)]
    /\ editor' = r.ed
    /\ UNCHANGED <<currentActivePreview, inFlight, chatPreviews, submitDisabled, edits, dvars, lvars, pvars, svars, hvars>>

ClickViewInSource ==
    \E i \in 1..Len(previews) :
        /\ Clickable(i) /\ ~previews[i].viewDisabled
        /\ Clicked(i, viewInSourceClick(previews[i], editor))

ClickAccept ==
    \E i \in 1..Len(previews) :
        /\ Clickable(i) /\ ~previews[i].acceptDisabled
        /\ Clicked(i, acceptClick(previews[i], editor))

ClickReject ==
    \E i \in 1..Len(previews) :
        /\ Clickable(i) /\ ~previews[i].rejectDisabled
        /\ Clicked(i, rejectClick(previews[i], editor))

Next ==
    \/ UserEdit
    \/ SendClick
    \/ SendEnter
    \/ ReceiveCode
    \/ ReceiveText
    \/ ReceiveError
    \/ ClickViewInSource
    \/ ClickAccept
    \/ ClickReject

Spec == ComposerInit /\ [][Next]_vars

(***************************************************************************)
(* codeCompletion/config.js : the completion manager and its RateLimiter.  *)
(* A text is a sequence of characters.  Time is Date.now() in              *)
(* milliseconds; it advances in steps of TickMs between the events.        *)
(***************************************************************************)
maxRequestsInline == 3
timeWindowMs == 4000
minBackoffMs == 1000
maxBackoffMs == 5000
consecutiveFailuresBeforeBackoff == 3

(* the age after which processQueue skips a queued request *)
MaxAgeMs == 2000

(* the number of characters before the cursor that make the context key *)
ContextChars == 100

TickMs == minBackoffMs
StartTime == timeWindowMs
MaxTime == 2 * timeWindowMs

(* how many completion requests are made, how often the manager is cleaned *)
(* up and how many processQueue loops can be alive in one session          *)
MaxRequests == 4
MaxResets == 1

TriggerTexts == {<<"x">>, <<"x", "y">>}

(* a call getAutoComplete(text, cursorOffset): a text and a cursor in it *)
Triggers ==
    UNION {{[text |-> t, cursorOffset |-> c] : c \in 1..Len(t)} : t \in TriggerTexts}

(* String.prototype.slice(from, to) with 0 <= from *)
Slice(text, from, to) == SubSeq(text, from + 1, Min(to, Len(text)))

(* text.slice(Math.max(0, cursorOffset - 100), cursorOffset) *)
contextKeyOf(text, cursorOffset) ==
    Slice(text, Max(0, cursorOffset - ContextChars), cursorOffset)

NoContext == [isNull |-> TRUE, cursorOffset |-> 0, contextKey |-> <<>>]

(* new RateLimiter(...) *)
NewRateLimiter ==
    [requests            |-> <<>>,
     lastRequestTime     |-> 0,
     backoffTime         |-> minBackoffMs,
     consecutiveFailures |-> 0,
     lastProcessedText   |-> <<>>,
     pendingRequests     |-> <<>>,
     isProcessingQueue   |-> FALSE,
     currentContext      |-> NoContext]

setCurrentContext(rl, cursorOffset, text) ==
    [rl EXCEPT !.currentContext = [isNull       |-> FALSE,
                                   cursorOffset |-> cursorOffset,
                                   contextKey   |-> contextKeyOf(text, cursorOffset)]]

isContextStale(rl, cursorOffset, text) ==
    IF rl.currentContext.isNull THEN FALSE
    ELSE rl.currentContext.contextKey # contextKeyOf(text, cursorOffset)

filterOldRequests(rl, t) ==
    [rl EXCEPT !.requests = SelectSeq(@, LAMBDA time : t - time < timeWindowMs)]

(* the value getTimeUntilNextRequest returns; it also filters the requests *)
getTimeUntilNextRequest(rl, t) ==
    LET f == filterOldRequests(rl, t)
    IN IF Len(f.requests) >= maxRequestsInline
       THEN Max(f.requests[1] + timeWindowMs - t, minBackoffMs)
       ELSE Max(0, rl.lastRequestTime + minBackoffMs - t)

(* a canMakeRequest without the test of the window *)
canMakeRequestNoWindow(rl, t) ==
    IF rl.consecutiveFailures >= consecutiveFailuresBeforeBackoff THEN FALSE
    ELSE IF t - rl.lastRequestTime < minBackoffMs THEN FALSE
    ELSE TRUE

(* the value canMakeRequest returns *)
canMakeRequest(rl, t) ==
    IF rl.consecutiveFailures >= consecutiveFailuresBeforeBackoff THEN FALSE
    ELSE IF t - rl.lastRequestTime < minBackoffMs THEN FALSE
    ELSE IF Len(filterOldRequests(rl, t).requests) >= maxRequestsInline THEN FALSE
    ELSE TRUE

(* the value addRequest returns *)
addRequestAccepts(rl, text) ==
    ~(text # <<>> /\ text = rl.lastProcessedText)

addRequest(rl, text, t) ==
    IF ~addRequestAccepts(rl, text) THEN rl
    ELSE [rl EXCEPT !.requests = Append(@, t),
                    !.lastRequestTime = t,
                    !.lastProcessedText = text]

handleSuccess(rl) ==
    [rl EXCEPT !.consecutiveFailures = 0,
               !.backoffTime = Max(minBackoffMs, @ \div 2)]

(* a handleFailure that doubles the backoff without the cap *)
handleFailureNoCap(rl) ==
    [rl EXCEPT !.consecutiveFailures = @ + 1,
               !.backoffTime = @ * 2]

handleFailure(rl) ==
    [rl EXCEPT !.consecutiveFailures = @ + 1,
               !.backoffTime = Min(@ * 2, maxBackoffMs)]

reset(rl) ==
    [rl EXCEPT !.requests = <<>>,
               !.lastRequestTime = 0,
               !.backoffTime = minBackoffMs,
               !.consecutiveFailures = 0,
               !.lastProcessedText = <<>>,
               !.pendingRequests = <<>>,
               !.isProcessingQueue = FALSE]

(***************************************************************************)
(* processQueue.  A call of processQueue that got past its first test is a *)
(* loop; it runs without interruption from one await to the next.  A loop  *)
(* is suspended in one of three places:                                    *)
(*   "waitSlot" : the setTimeout(waitTime) after canMakeRequest refused    *)
(*   "fetch"    : the await of requestFn, the HTTP request being out       *)
(*   "delay"    : the setTimeout(minBackoffMs) after a request             *)
(* The operators below work on the record w of everything a loop touches:  *)
(* the rateLimiter object, completionCache, the promises addToQueue        *)
(* returned (promise number id being "pending", or settled with "null",   *)
(* with "empty", the empty string, or with a "completion") and the times   *)
(* requests were sent since the last reset.                                *)
(***************************************************************************)
NoRequest == [id |-> 0, text |-> <<>>, cursorOffset |-> 0, timestamp |-> 0]

Suspended(pc, request, wake) == [pc |-> pc, request |-> request, wake |-> wake]

Ended == Suspended("ended", NoRequest, 0)

(* request.resolve(value) *)
resolve(w, request, value) ==
    [w EXCEPT !.promises[request.id] = value]

(* makeRequest up to its first await: a cached completion or a refusal by  *)
(* addRequest returns at once, otherwise the request is sent               *)
CacheHit(w, request) ==
    contextKeyOf(request.text, request.cursorOffset) \in w.completionCache

(* request.resolve(result); this.handleSuccess(); then the delay *)
afterRequestFn(w, request, result, t) ==
    [w    |-> [resolve(w, request, result) EXCEPT !.rl = handleSuccess(@)],
     loop |-> Suspended("delay", NoRequest, t + minBackoffMs)]

startRequest(w, request, t) ==
    IF CacheHit(w, request) THEN afterRequestFn(w, request, "completion", t)
    ELSE IF ~addRequestAccepts(w.rl, request.text) THEN afterRequestFn(w, request, "null", t)
    ELSE [w    |-> [w EXCEPT !.rl = addRequest(@, request.text, t),
                             !.sent = Append(@, t)],
          loop |-> Suspended("fetch", request, 0)]

(* the while loop of processQueue, from its test to the next await *)
RECURSIVE whileLoop(_, _)
whileLoop(w, t) ==
    IF w.rl.pendingRequests = <<>>
    THEN [w |-> [w EXCEPT !.rl.isProcessingQueue = FALSE], loop |-> Ended]
    ELSE LET request == Head(w.rl.pendingRequests)
             shifted == [w EXCEPT !.rl.pendingRequests = Tail(@)]
         IN IF isContextStale(w.rl, request.cursorOffset, request.text)
            THEN whileLoop(resolve(shifted, request, "null"), t)
            ELSE IF t - request.timestamp > MaxAgeMs
            THEN whileLoop(resolve(shifted, request, "null"), t)
            ELSE IF ~canMakeRequest(w.rl, t)
            THEN [w    |-> [w EXCEPT !.rl = filterOldRequests(@, t)],
                  loop |-> Suspended("waitSlot", NoRequest, t + getTimeUntilNextRequest(w.rl, t))]
            ELSE startRequest([shifted EXCEPT !.rl = filterOldRequests(@, t)], request, t)

(* processQueue() as addToQueue calls it *)
processQueue(w, t) ==
    IF w.rl.isProcessingQueue \/ w.rl.pendingRequests = <<>>
    THEN [w |-> w, loop |-> Ended]
    ELSE whileLoop([w EXCEPT !.rl.isProcessingQueue = TRUE], t)

(* addToQueue(makeRequest, cursorOffset, text), the promise it returns     *)
(* being number id                                                         *)
addToQueue(w, id, cursorOffset, text, t) ==
    LET ctx  == setCurrentContext(w.rl, cursorOffset, text)
        kept == SelectSeq(ctx.pendingRequests,
                          LAMBDA request : ~isContextStale(ctx, request.cursorOffset, request.text))
        request == [id |-> id, text |-> text, cursorOffset |-> cursorOffset, timestamp |-> t]
    IN processQueue([w EXCEPT !.rl = [ctx EXCEPT !.pendingRequests = Append(kept, request)],
                              !.promises = Append(@, "pending")],
                    t)

(* the rest of makeRequest once the HTTP exchange is over, by its outcome: *)
(*   "completion" a non-empty completion, "empty" an empty one,            *)
(*   "invalid" a body that is no JSON or has no candidate,                 *)
(*   "notOk" a response with !response.ok, "error" fetch threw             *)
Outcomes == {"completion", "empty", "invalid", "notOk", "error"}

makeRequestEnds(w, request, outcome) ==
    CASE outcome = "completion" ->
            [w EXCEPT !.rl = handleSuccess(@),
                      !.completionCache =
                          @ \cup {contextKeyOf(request.text, request.cursorOffset)}]
      [] outcome \in {"empty", "invalid"} -> [w EXCEPT !.rl = handleFailure(@)]
      [] OTHER -> w

(* what makeRequest returns *)
resultOf(outcome) ==
    CASE outcome = "completion" -> "completion"
      [] outcome = "empty" -> "empty"
      [] OTHER -> "null"

World ==
    [rl              |-> rateLimiter,
     completionCache |-> completionCache,
     promises        |-> promises,
     sent            |-> sent]

SetWorld(w) ==
    /\ rateLimiter' = w.rl
    /\ completionCache' = w.completionCache
    /\ promises' = w.promises
    /\ sent' = w.sent

LimiterInit ==
    /\ now = StartTime
    /\ rateLimiter = NewRateLimiter
    /\ completionCache = {}
    /\ promises = <<>>
    /\ loops = <<>>
    /\ sent = <<>>
    /\ resets = 0
    /\ DiffIdle
    /\ ComposerIdle
    /\ PollIdle
    /\ StorageIdle
    /\ ChatIdle

(* getAutoComplete(text, cursorOffset), from the inline provider or from   *)
(* Ctrl+Space                                                              *)
GetAutoComplete ==
    \E tr \in Triggers :
        /\ Len(promises) < MaxRequests
        /\ LET r == addToQueue(World, Len(promises) + 1, tr.cursorOffset, tr.text, now)
           IN /\ SetWorld(r.w)
              /\ loops' = IF r.loop = Ended THEN loops ELSE Append(loops, r.loop)
        /\ UNCHANGED <<now, resets, dvars, cvars, pvars, svars, hvars>>

(* a setTimeout of a loop fires, at its time or later *)
TimerFires ==
    \E l \in 1..Len(loops) :
        /\ loops[l].pc \in {"waitSlot", "delay"}
        /\ now >= loops[l].wake
        /\ LET r == whileLoop(World, now)
           IN /\ SetWorld(r.w)
              /\ loops' = IF r.loop = Ended THEN Without(loops, l)
                          ELSE [loops EXCEPT ![l] = r.loop]
        /\ UNCHANGED <<now, resets, dvars, cvars, pvars, svars, hvars>>

(* the HTTP exchange of a sent request is over *)
RequestReturns ==
    \E l \in 1..Len(loops), outcome \in Outcomes :
        /\ loops[l].pc = "fetch"
        /\ LET request == loops[l].request
               r == afterRequestFn(makeRequestEnds(World, request, outcome),
                                   request, resultOf(outcome), now)
           IN /\ SetWorld(r.w)
              /\ loops' = [loops EXCEPT ![l] = r.loop]
        /\ UNCHANGED <<now, resets, dvars, cvars, pvars, svars, hvars>>

(* cleanup(): the provider or the editor is disposed *)
Cleanup ==
    /\ resets < MaxResets
    /\ resets' = resets + 1
    /\ completionCache' = {}
    /\ rateLimiter' = reset(rateLimiter)
    /\ sent' = <<>>
    /\ UNCHANGED <<promises, loops, now, dvars, cvars, pvars, svars, hvars>>

Tick ==
    /\ now < MaxTime
    /\ now' = now + TickMs
    /\ UNCHANGED <<rateLimiter, completionCache, promises, loops, sent, resets, dvars, cvars, pvars, svars, hvars>>

LimiterNext ==
    \/ GetAutoComplete
    \/ TimerFires
    \/ RequestReturns
    \/ Cleanup
    \/ Tick

SpecLimiter == LimiterInit /\ [][LimiterNext]_vars

(***************************************************************************)
(* The RateLimiter object on its own: its methods called in any order, as  *)
(* any caller of the class may.                                            *)
(***************************************************************************)
MaxFailures == 4

BackoffInit ==
    /\ now = StartTime
    /\ rateLimiter = NewRateLimiter
    /\ completionCache = {}
    /\ promises = <<>>
    /\ loops = <<>>
    /\ sent = <<>>
    /\ resets = 0
    /\ DiffIdle
    /\ ComposerIdle
    /\ PollIdle
    /\ StorageIdle
    /\ ChatIdle

CallHandleSuccess ==
    /\ rateLimiter' = handleSuccess(rateLimiter)
    /\ UNCHANGED <<completionCache, promises, loops, now, sent, resets, dvars, cvars, pvars, svars, hvars>>

CallHandleFailure ==
    /\ rateLimiter.consecutiveFailures < MaxFailures
    /\ rateLimiter' = handleFailure(rateLimiter)
    /\ UNCHANGED <<completionCache, promises, loops, now, sent, resets, dvars, cvars, pvars, svars, hvars>>

CallReset ==
    /\ rateLimiter' = reset(rateLimiter)
    /\ UNCHANGED <<completionCache, promises, loops, now, sent, resets, dvars, cvars, pvars, svars, hvars>>

(* canMakeRequest, then addRequest *)
CallAddRequest ==
    /\ canMakeRequest(rateLimiter, now)
    /\ \E text \in TriggerTexts : rateLimiter' = addRequest(rateLimiter, text, now)
    /\ UNCHANGED <<completionCache, promises, loops, now, sent, resets, dvars, cvars, pvars, svars, hvars>>

BackoffNext ==
    \/ CallHandleSuccess
    \/ CallHandleFailure
    \/ CallReset
    \/ CallAddRequest
    \/ Tick

SpecBackoff == BackoffInit /\ [][BackoffNext]_vars

(***************************************************************************)
(* CompilerManager.js : run, sendRequest and fetchSubmission.              *)
(* A submission is one run() call that got past the empty-source test:     *)
(*   pc        : "additionalFiles" the SQLite files are being loaded,      *)
(*               "posting" the POST of sendRequest is in flight,           *)
(*               "timer" a setTimeout(fetchSubmission, ..) is pending,     *)
(*               "probing" the GET of fetchSubmission is in flight,        *)
(*               "result" handleResult ran, "error" handleRunError ran     *)
(*   iteration : the iteration argument of the pending or running          *)
(*               fetchSubmission call (0 before the first one)             *)
(*   probes    : the number of status requests sent so far                 *)
(*   error     : the status of the run error reported (0: none)            *)
(* The handlers work on c = [btn, sub]: the disabled class of the run      *)
(* button and the submission.                                              *)
(***************************************************************************)
MAX_PROBE_REQUESTS == 50

MaxSubmissions == 2

(* the HTTP status jQuery passes to an error callback *)
HttpErrors == {0, 500}

NewSubmission ==
    [pc |-> "posting", iteration |-> 0, probes |-> 0, error |-> 0]

handleRunError(c, status) ==
    [btn |-> FALSE, sub |-> [c.sub EXCEPT !.pc = "error", !.error = status]]

(* stdoutFound: the layout has the stdout panel and its editor element;    *)
(* without them handleResult returns before it releases the button         *)
handleResult(c, stdoutFound) ==
    IF ~stdoutFound
    THEN [c EXCEPT !.sub.pc = "result"]
    ELSE [btn |-> FALSE, sub |-> [c.sub EXCEPT !.pc = "result"]]

(* the limit test with > in place of >= *)
fetchSubmissionOneMore(c) ==
    IF c.sub.iteration > MAX_PROBE_REQUESTS
    THEN handleRunError(c, 504)
    ELSE [c EXCEPT !.sub.pc = "probing", !.sub.probes = @ + 1]

(* fetchSubmission up to its $.ajax call *)
fetchSubmission(c) ==
    IF c.sub.iteration >= MAX_PROBE_REQUESTS
    THEN handleRunError(c, 504)
    ELSE [c EXCEPT !.sub.pc = "probing", !.sub.probes = @ + 1]

(* the success callback of fetchSubmission; inQueue: data.status.id <= 2 *)
fetchSubmissionSuccess(c, inQueue, stdoutFound) ==
    IF inQueue
    THEN [c EXCEPT !.sub.pc = "timer", !.sub.iteration = @ + 1]
    ELSE handleResult(c, stdoutFound)

sendRequest(c) == [c EXCEPT !.sub.pc = "posting"]

(* the success callback of sendRequest *)
sendRequestSuccess(c) == [c EXCEPT !.sub.pc = "timer", !.sub.iteration = 1]

Compiler(i) == [btn |-> runBtnDisabled, sub |-> submissions[i]]

SetCompiler(i, c) ==
    /\ runBtnDisabled' = c.btn
    /\ submissions' = [submissions EXCEPT ![i] = c.sub]

PollInit ==
    /\ PollIdle
    /\ DiffIdle
    /\ ComposerIdle
    /\ LimiterIdle
    /\ StorageIdle
    /\ ChatIdle

(* run(), from the Run button or Ctrl+Enter.  sourceEmpty: the trimmed     *)
(* source is empty; stdoutFound: the layout has the stdout panel (without   *)
(* it x.parent throws after the button was disabled); sqlite: language 82  *)
Run ==
    /\ Len(submissions) < MaxSubmissions
    /\ \E sourceEmpty \in BOOLEAN, stdoutFound \in BOOLEAN, sqlite \in BOOLEAN :
        IF sourceEmpty
        THEN UNCHANGED pvars
        ELSE /\ runBtnDisabled' = TRUE
             /\ submissions' =
                    IF ~stdoutFound THEN submissions
                    ELSE IF sqlite /\ ~sqliteAdditionalFiles
                    THEN Append(submissions, [NewSubmission EXCEPT !.pc = "additionalFiles"])
                    ELSE Append(submissions, sendRequest([btn |-> TRUE, sub |-> NewSubmission]).sub)
             /\ UNCHANGED sqliteAdditionalFiles
    /\ UNCHANGED <<dvars, cvars, lvars, svars, hvars>>

(* the request for the SQLite files settles *)
AdditionalFilesReturn ==
    /\ \E i \in DOMAIN submissions :
        /\ submissions[i].pc = "additionalFiles"
        /\ \/ /\ sqliteAdditionalFiles' = TRUE
              /\ SetCompiler(i, sendRequest(Compiler(i)))
           \/ /\ \E status \in HttpErrors : SetCompiler(i, handleRunError(Compiler(i), status))
              /\ UNCHANGED sqliteAdditionalFiles
    /\ UNCHANGED <<dvars, cvars, lvars, svars, hvars>>

(* the POST of sendRequest settles *)
PostReturns ==
    /\ \E i \in DOMAIN submissions :
        /\ submissions[i].pc = "posting"
        /\ \/ SetCompiler(i, sendRequestSuccess(Compiler(i)))
           \/ \E status \in HttpErrors : SetCompiler(i, handleRunError(Compiler(i), status))
    /\ UNCHANGED <<sqliteAdditionalFiles, dvars, cvars, lvars, svars, hvars>>

(* a timer set by sendRequest or fetchSubmission fires: fetchSubmission *)
ProbeTimerFires ==
    /\ \E i \in DOMAIN submissions :
        /\ submissions[i].pc = "timer"
        /\ SetCompiler(i, fetchSubmission(Compiler(i)))
    /\ UNCHANGED <<sqliteAdditionalFiles, dvars, cvars, lvars, svars, hvars>>

(* the GET of fetchSubmission settles *)
ProbeReturns ==
    /\ \E i \in DOMAIN submissions :
        /\ submissions[i].pc = "probing"
        /\ \/ \E inQueue \in BOOLEAN, stdoutFound \in BOOLEAN :
                SetCompiler(i, fetchSubmissionSuccess(Compiler(i), inQueue, stdoutFound))
           \/ \E status \in HttpErrors : SetCompiler(i, handleRunError(Compiler(i), status))
    /\ UNCHANGED <<sqliteAdditionalFiles, dvars, cvars, lvars, svars, hvars>>

PollNext ==
    \/ Run
    \/ AdditionalFilesReturn
    \/ PostReturns
    \/ ProbeTimerFires
    \/ ProbeReturns

SpecPoll == PollInit /\ [][PollNext]_vars

(* every HTTP request eventually completes and every timer set with        *)
(* setTimeout eventually fires; the user need not call run()               *)
SpecPollFair ==
    /\ SpecPoll
    /\ WF_vars(AdditionalFilesReturn)
    /\ WF_vars(PostReturns)
    /\ WF_vars(ProbeTimerFires)
    /\ WF_vars(ProbeReturns)

(***************************************************************************)
(* LocalStorage.js and ThemeManager.js.                                    *)
(* A string is a sequence of tokens: the quote Q, the braces, the colon,   *)
(* a digit, or a word without any of these.  A JavaScript value is a       *)
(* record with its type; an object has at most one field here, and the     *)
(* strings inside objects hold no quote.                                   *)
(*   localStorage : key -> [has, item], the browser's storage              *)
(*   storageFails : every call of localStorage throws                      *)
(*   systemTheme  : what prefers-color-scheme reports                      *)
(*   page         : the theme the page shows                               *)
(*   lastCall     : the last event and the last ls call made in it         *)
(***************************************************************************)
Q == "\""

JsString(chars) == [type |-> "string", chars |-> chars]

JsNumber(d) == [type |-> "number", digits |-> <<d>>]

JsBoolean(w) == [type |-> "boolean", word |-> w]

JsNull == [type |-> "null"]

JsUndefined == [type |-> "undefined"]

JsObject(fields) == [type |-> "object", fields |-> fields]

Digits == {"0", "1"}

RECURSIVE JSONstringify(_)
JSONstringify(v) ==
    CASE v.type = "string"  -> <<Q>> \o v.chars \o <<Q>>
      [] v.type = "number"  -> v.digits
      [] v.type = "boolean" -> <<v.word>>
      [] v.type = "null"    -> <<"null">>
      [] v.type = "object"  ->
            IF v.fields = <<>> THEN <<"{", "}">>
            ELSE <<"{", Q, v.fields[1].key, Q, ":">>
                    \o JSONstringify(v.fields[1].value) \o <<"}">>

(* JSON.parse: ok is FALSE where it throws a SyntaxError *)
RECURSIVE JSONparse(_)
JSONparse(str) ==
    LET n == Len(str)
        fail == [ok |-> FALSE, value |-> JsUndefined]
    IN  IF n = 1 /\ str[1] \in Digits
        THEN [ok |-> TRUE, value |-> JsNumber(str[1])]
        ELSE IF n = 1 /\ str[1] \in {"true", "false"}
        THEN [ok |-> TRUE, value |-> JsBoolean(str[1])]
        ELSE IF n = 1 /\ str[1] = "null"
        THEN [ok |-> TRUE, value |-> JsNull]
        ELSE IF n >= 2 /\ str[1] = Q /\ str[n] = Q
                /\ \A i \in 2..(n - 1) : str[i] # Q
        THEN [ok |-> TRUE, value |-> JsString(SubSeq(str, 2, n - 1))]
        ELSE IF n = 2 /\ str[1] = "{" /\ str[2] = "}"
        THEN [ok |-> TRUE, value |-> JsObject(<<>>)]
        ELSE IF n >= 7 /\ str[1] = "{" /\ str[2] = Q /\ str[3] # Q /\ str[4] = Q
                /\ str[5] = ":" /\ str[n] = "}"
        THEN LET inner == JSONparse(SubSeq(str, 6, n - 1))
             IN  IF inner.ok
                 THEN [ok |-> TRUE,
                       value |-> JsObject(<<[key |-> str[3], value |-> inner.value]>>)]
                 ELSE fail
        ELSE fail

Absent == [has |-> FALSE, item |-> <<>>]

(* localStorage.removeItem, setItem and getItem: with storageFails they    *)
(* throw and change nothing                                                *)
removeItem(store, fails, key) ==
    IF fails THEN [store |-> store, result |-> JsUndefined, threw |-> TRUE]
    ELSE [store |-> [store EXCEPT ![key] = Absent],
          result |-> JsUndefined, threw |-> FALSE]

setItem(store, fails, key, str) ==
    IF fails THEN [store |-> store, result |-> JsUndefined, threw |-> TRUE]
    ELSE [store |-> [store EXCEPT ![key] = [has |-> TRUE, item |-> str]],
          result |-> JsUndefined, threw |-> FALSE]

getItem(store, fails, key) ==
    IF fails THEN [store |-> store, result |-> JsUndefined, threw |-> TRUE]
    ELSE [store |-> store,
          result |-> IF store[key].has THEN JsString(store[key].item) ELSE JsNull,
          threw |-> FALSE]

(* an ls.del without the try block *)
lsDelNoCatch(store, fails, key) == removeItem(store, fails, key)

(* ls.del *)
lsDel(store, fails, key) ==
    [removeItem(store, fails, key) EXCEPT !.threw = FALSE]

(* ls.set; value is a string, an object, null or undefined *)
lsSet(store, fails, key, value) ==
    IF value.type \in {"null", "undefined"}
    THEN [lsDel(store, fails, key) EXCEPT !.threw = FALSE]
    ELSE LET str == IF value.type = "object" THEN JSONstringify(value) ELSE value.chars
         IN  [setItem(store, fails, key, str) EXCEPT !.threw = FALSE]

(* ls.get; JSON.parse(null) is null *)
lsGet(store, fails, key) ==
    LET r == getItem(store, fails, key)
    IN  IF r.threw THEN [r EXCEPT !.result = JsNull, !.threw = FALSE]
        ELSE IF r.result.type = "null" THEN r
        ELSE LET parsed == JSONparse(r.result.chars)
             IN  IF parsed.ok THEN [r EXCEPT !.result = parsed.value] ELSE r

SUPPORTED_THEMES == {"light", "dark", "system", "reverse-system"}

DEFAULT_THEME == "system"

ThemeKey == "JUDGE0_THEME"

(* a value that || skips *)
Falsy(v) ==
    \/ v.type \in {"null", "undefined"}
    \/ v.type = "string" /\ v.chars = <<>>
    \/ v.type = "number" /\ v.digits = <<"0">>
    \/ v.type = "boolean" /\ v.word = "false"

IsName(v, name) == v.type = "string" /\ v.chars = <<name>>

Opposite(t) == IF t = "dark" THEN "light" ELSE "dark"

(* theme.get *)
themeGet(store, fails) ==
    LET r == lsGet(store, fails, ThemeKey).result
    IN  IF Falsy(r) THEN JsString(<<DEFAULT_THEME>>) ELSE r

(* theme.set(name, save) on w = [store, fails, sys, page, call]: the       *)
(* storage, the system theme, the page and the last ls call                *)
themeSet(w, name, save) ==
    LET resolvedName ==
            IF \E t \in SUPPORTED_THEMES : IsName(name, t)
            THEN name ELSE themeGet(w.store, w.fails)
        resolvedTheme ==
            IF IsName(resolvedName, "system") THEN JsString(<<w.sys>>)
            ELSE IF IsName(resolvedName, "reverse-system")
            THEN JsString(<<Opposite(w.sys)>>)
            ELSE resolvedName
        shown == [resolvedName |-> resolvedName,
                  isLight |-> IsName(resolvedTheme, "light")]
        r == lsSet(w.store, w.fails, ThemeKey, resolvedName)
    IN  IF save
        THEN [w EXCEPT !.page = shown, !.store = r.store,
                       !.call = [op |-> "set", key |-> ThemeKey, value |-> resolvedName,
                                 result |-> r.result, threw |-> r.threw]]
        ELSE [w EXCEPT !.page = shown]

(* a theme.toggle that never goes back to the system theme *)
themeToggleTwoWay(w) ==
    LET current == themeGet(w.store, w.fails)
    IN  IF IsName(current, "dark") THEN themeSet(w, JsString(<<"light">>), TRUE)
        ELSE IF IsName(current, "light") THEN themeSet(w, JsString(<<"dark">>), TRUE)
        ELSE themeSet(w, JsString(<<Opposite(w.sys)>>), TRUE)

(* theme.toggle *)
themeToggle(w) ==
    LET current == themeGet(w.store, w.fails)
    IN  IF IsName(current, "system")
        THEN themeSet(w, JsString(<<Opposite(w.sys)>>), TRUE)
        ELSE IF IsName(current, "reverse-system")
        THEN themeSet(w, JsString(<<Opposite(Opposite(w.sys))>>), TRUE)
        ELSE IF IsName(current, "dark")
        THEN themeSet(w, JsString(<<IF w.sys = "dark" THEN "system" ELSE "light">>), TRUE)
        ELSE IF IsName(current, "light")
        THEN themeSet(w, JsString(<<IF w.sys = "light" THEN "system" ELSE "dark">>), TRUE)
        ELSE w

(* the listener of prefers-color-scheme changes, the system theme being    *)
(* the new one already                                                     *)
onSystemThemeChange(w) ==
    LET a == IF IsName(themeGet(w.store, w.fails), "system")
             THEN themeSet(w, JsString(<<"system">>), FALSE) ELSE w
    IN  IF IsName(themeGet(a.store, a.fails), "reverse-system")
        THEN themeSet(a, JsString(<<"reverse-system">>), FALSE) ELSE a

(* the keys the ls functions are called with besides the theme's *)
GenericKeys == {"key", "settings"}

Keys == GenericKeys \cup {ThemeKey}

(* values handed to ls.set: strings (one of them empty, one of them a JSON *)
(* text), objects (one of them with a field) and null                      *)
SetValues ==
    {JsString(<<"value">>), JsString(<<>>), JsString(<<"1">>),
     JsObject(<<>>), JsObject(<<[key |-> "theme", value |-> JsString(<<"dark">>)]>>),
     JsNull}

(* the theme parameter of the URL: a supported name, another one, none *)
QueryThemes ==
    {JsString(<<t>>) : t \in SUPPORTED_THEMES} \cup {JsString(<<"blue">>), JsNull}

NoCall ==
    [op |-> "none", key |-> "", value |-> JsUndefined, result |-> JsUndefined,
     threw |-> FALSE]

NoPage == [resolvedName |-> JsUndefined, isLight |-> TRUE]

(* an event: who called, the ls call, and whether the storage was failing; *)
(* seq tells two events apart                                              *)
Event(by, call) ==
    [seq |-> 1 - lastCall.seq, by |-> by, failed |-> storageFails,
     op |-> call.op, key |-> call.key, value |-> call.value,
     result |-> call.result, threw |-> call.threw]

ThemeWorld ==
    [store |-> localStorage, fails |-> storageFails, sys |-> systemTheme,
     page |-> page, call |-> NoCall]

StorageInit ==
    /\ localStorage = [k \in Keys |-> Absent]
    /\ storageFails \in BOOLEAN
    /\ systemTheme \in {"light", "dark"}
    /\ page = NoPage
    /\ lastCall = [seq |-> 0, by |-> "none", failed |-> FALSE,
                   op |-> "none", key |-> "", value |-> JsUndefined,
                   result |-> JsUndefined, threw |-> FALSE]
    /\ DiffIdle
    /\ ComposerIdle
    /\ LimiterIdle
    /\ PollIdle
    /\ ChatIdle

LsSet ==
    /\ \E key \in GenericKeys, value \in SetValues :
        LET r == lsSet(localStorage, storageFails, key, value) IN
        /\ localStorage' = r.store
        /\ lastCall' = Event("api", [op |-> "set", key |-> key, value |-> value,
                                     result |-> r.result, threw |-> r.threw])
    /\ UNCHANGED <<storageFails, systemTheme, page, dvars, cvars, lvars, pvars, hvars>>

LsGet ==
    /\ \E key \in GenericKeys :
        LET r == lsGet(localStorage, storageFails, key) IN
        /\ localStorage' = r.store
        /\ lastCall' = Event("api", [op |-> "get", key |-> key, value |-> JsUndefined,
                                     result |-> r.result, threw |-> r.threw])
    /\ UNCHANGED <<storageFails, systemTheme, page, dvars, cvars, lvars, pvars, hvars>>

LsDel ==
    /\ \E key \in GenericKeys :
        LET r == lsDel(localStorage, storageFails, key) IN
        /\ localStorage' = r.store
        /\ lastCall' = Event("api", [op |-> "del", key |-> key, value |-> JsUndefined,
                                     result |-> r.result, threw |-> r.threw])
    /\ UNCHANGED <<storageFails, systemTheme, page, dvars, cvars, lvars, pvars, hvars>>

(* the storage starts or stops failing (private mode, quota, settings) *)
StorageFailure ==
    /\ storageFails' = ~storageFails
    /\ UNCHANGED <<localStorage, systemTheme, page, lastCall, dvars, cvars, lvars, pvars, hvars>>

(* the page is loaded: theme.set(query.get("theme")) *)
ThemeLoad ==
    /\ \E name \in QueryThemes :
        LET w == themeSet([ThemeWorld EXCEPT !.page = NoPage], name, TRUE) IN
        /\ localStorage' = w.store
        /\ page' = w.page
        /\ lastCall' = Event("load", w.call)
    /\ UNCHANGED <<storageFails, systemTheme, dvars, cvars, lvars, pvars, hvars>>

(* a click on the theme button *)
ThemeToggle ==
    /\ page # NoPage
    /\ LET w == themeToggle(ThemeWorld) IN
        /\ localStorage' = w.store
        /\ page' = w.page
        /\ lastCall' = Event("toggle", w.call)
    /\ UNCHANGED <<storageFails, systemTheme, dvars, cvars, lvars, pvars, hvars>>

(* the system switches between light and dark *)
SystemThemeChange ==
    /\ systemTheme' = Opposite(systemTheme)
    /\ LET w == onSystemThemeChange([ThemeWorld EXCEPT !.sys = Opposite(systemTheme)]) IN
        /\ localStorage' = w.store
        /\ page' = IF page = NoPage THEN page ELSE w.page
        /\ lastCall' = Event("change", w.call)
    /\ UNCHANGED <<storageFails, dvars, cvars, lvars, pvars, hvars>>

StorageNext ==
    \/ LsSet
    \/ LsGet
    \/ LsDel
    \/ StorageFailure
    \/ ThemeLoad
    \/ ThemeToggle
    \/ SystemThemeChange

SpecStorage == StorageInit /\ [][StorageNext]_vars

(***************************************************************************)
(* chat/ErrorChatButton.js : the chat manager.                             *)
(*   messageHistory     : the module variable, a sequence of               *)
(*                        [role, content]; the content of a message is     *)
(*                        the number of the sendMessage call it belongs to *)
(*   chatCalls          : the sendMessage calls awaiting fetch             *)
(*   chatSubmitDisabled : submitButton.disabled                            *)
(*   chatSends          : how many messages were sent                      *)
(***************************************************************************)
MAX_MESSAGES == 4

(* messages sent in one session, and calls awaiting at the same time *)
MaxSends == 5

MaxChatCalls == 2

(* how a request ends: a usable answer, a response that is not ok, a       *)
(* rejected fetch, an answer without candidates (reading                   *)
(* data.candidates[0] throws)                                              *)
ChatOutcomes == {"ok", "notOk", "rejected", "noCandidates"}

(* messageHistory.slice(-MAX_MESSAGES) *)
sliceLast(h, n) == SubSeq(h, Max(1, Len(h) - n + 1), Len(h))

(* if (messageHistory.length > MAX_MESSAGES) messageHistory = ...slice(-MAX_MESSAGES) *)
limitHistory(h) == IF Len(h) > MAX_MESSAGES THEN sliceLast(h, MAX_MESSAGES) ELSE h

(* sendMessage up to the await of fetch *)
chatSendStart(h, n) == Append(h, [role |-> "user", content |-> n])

(* sendMessage after the await: the try block, or the catch block *)
chatSendEnd(h, n, outcome) ==
    IF outcome = "ok"
    THEN limitHistory(Append(h, [role |-> "assistant", content |-> n]))
    ELSE h

ChatInit ==
    /\ messageHistory = <<>>
    /\ chatCalls = <<>>
    /\ chatSubmitDisabled = FALSE
    /\ chatSends = 0
    /\ DiffIdle
    /\ ComposerIdle
    /\ LimiterIdle
    /\ PollIdle
    /\ StorageIdle

(* sendMessage is called; with an empty input it returns at once *)
ChatSend ==
    \E empty \in BOOLEAN :
        IF empty
        THEN UNCHANGED hvars
        ELSE /\ chatSends < MaxSends
             /\ Len(chatCalls) < MaxChatCalls
             /\ messageHistory' = chatSendStart(messageHistory, chatSends + 1)
             /\ chatCalls' = Append(chatCalls, chatSends + 1)
             /\ chatSubmitDisabled' = TRUE
             /\ chatSends' = chatSends + 1

(* a click on the Submit button; a disabled button gets no click *)
ChatSubmitClick ==
    /\ ~chatSubmitDisabled
    /\ ChatSend
    /\ UNCHANGED <<dvars, cvars, lvars, pvars, svars>>

(* Enter in the input field, which is never disabled *)
ChatEnterKey ==
    /\ ChatSend
    /\ UNCHANGED <<dvars, cvars, lvars, pvars, svars>>

(* the fetch of one call settles and sendMessage runs to its end *)
ChatResponse ==
    \E k \in 1..Len(chatCalls), outcome \in ChatOutcomes :
        /\ messageHistory' = chatSendEnd(messageHistory, chatCalls[k], outcome)
        /\ chatCalls' = Without(chatCalls, k)
        /\ chatSubmitDisabled' = FALSE
        /\ UNCHANGED <<chatSends, dvars, cvars, lvars, pvars, svars>>

(* updateProblemContext: another problem is selected *)
UpdateProblemContext ==
    /\ messageHistory # <<>>
    /\ messageHistory' = <<>>
    /\ UNCHANGED <<chatCalls, chatSubmitDisabled, chatSends, dvars, cvars, lvars, pvars, svars>>

ChatNext ==
    \/ ChatSubmitClick
    \/ ChatEnterKey
    \/ ChatResponse
    \/ UpdateProblemContext

SpecChat == ChatInit /\ [][ChatNext]_vars

(* no line of the text starts with one of the two marker characters *)
NoMarkerLines(text) ==
    \A k \in 1..Len(text) : ~StartsWith(text[k], "+") /\ ~StartsWith(text[k], "-")

(* the marker view read back: the lines starting with '+' deleted, the     *)
(* leading '-' of the others stripped                                      *)
WithoutMarkers(view) ==
    LET kept == SelectSeq(view, LAMBDA l : ~StartsWith(l, "+"))
    IN Join([k \in 1..Len(kept) |->
                IF StartsWith(kept[k], "-") THEN Tail(kept[k]) ELSE kept[k]])

(* the added lines of a diff, hunk after hunk *)
RECURSIVE AddedLines(_)
AddedLines(diff) ==
    IF diff = <<>> THEN <<>>
    ELSE SelectSeq(Head(diff).lines, LAMBDA l : StartsWith(l, "+"))
            \o AddedLines(Tail(diff))

ProjectionInverts ==
    /\ WithoutMarkers(dView) = dOriginal
    /\ SelectSeq(dView, LAMBDA l : StartsWith(l, "+")) = AddedLines(dDiff)

(* C6 (as claimed): Apply in source view leaves the editor with the same   *)
(* text as Apply in composer view, the proposed code.                      *)
C6_ViewsAgreeOnApply ==
    dPhase = "appliedSource" => dEditor = dProposed

AllDisabled(p) == p.viewDisabled /\ p.acceptDisabled /\ p.rejectDisabled

(* C1: once a preview has announced 'Changes rejected.', on whatever path, *)
(* its three buttons View in Source, Apply/Revert and Reject are disabled  *)
(* (so that no later click on it can change its state or the editor).      *)
C1_RejectedIsTerminal ==
    \A i \in 1..Len(previews) :
        previews[i].reviewState = "rejected" => AllDisabled(previews[i])

(* C2: a click that takes a preview from applied to reverted leaves in the *)
(* main editor the text it held immediately before that Apply, with the    *)
(* composer-view handler and with the source-view handler, whatever was    *)
(* typed into the editor in between.                                       *)
C2_ApplyThenRevertRestores ==
    [][\A i \in 1..Len(previews) :
          (previews[i].reviewState = "applied" /\ previews'[i].reviewState = "reverted")
              => editor' = previews[i].preApply]_vars

(* a revert in source view, after the user typed between Apply and Revert, *)
(* of an Apply that had changed the text                                   *)
C2_Witness ==
    \E i \in 1..Len(previews) :
        /\ previews[i].reviewState = "reverted"
        /\ previews[i].acceptHandler = "source"
        /\ previews[i].editedSinceApply
        /\ previews[i].preApply # previews[i].proposedCode
        /\ editor = previews[i].preApply

(* C3: no Reject takes effect while a preview is applied, and no Apply or  *)
(* Revert takes effect after it is rejected.                               *)
C3_OnlyLegalTransitions ==
    [][\A i \in 1..Len(previews) :
          /\ previews[i].reviewState = "applied"
                => previews'[i].reviewState # "rejected"
          /\ previews[i].reviewState = "rejected"
                => previews'[i].reviewState = "rejected"]_vars

(* C4: whenever the active preview has put its proposed code into the      *)
(* editor, its Apply button is enabled and the next click on it is a       *)
(* Revert that restores the text from before the Apply.                    *)
C4_AppliedIsRevertible ==
    \A i \in 1..Len(previews) :
        (i = currentActivePreview /\ previews[i].reviewState = "applied")
            => /\ ~previews[i].acceptDisabled
               /\ acceptClick(previews[i], editor).say = "reverted"
               /\ acceptClick(previews[i], editor).ed = previews[i].preApply

(* C5: every preview other than the one currentActivePreview points to is  *)
(* marked inactive, has all its buttons disabled and is still in the chat; *)
(* so at most one preview is live, and it is the current one.              *)
C5_OneActivePreview ==
    /\ currentActivePreview \in 0..Len(previews)
    /\ \A i \in 1..Len(previews) :
          /\ i \in chatPreviews
          /\ i # currentActivePreview
                => previews[i].inactive /\ AllDisabled(previews[i])
    /\ Cardinality({i \in 1..Len(previews) :
                       ~previews[i].inactive /\ ~AllDisabled(previews[i])}) <= 1

(* a second preview superseded a first one that was applied, its Revert    *)
(* button still enabled at that time                                       *)
C5_Witness ==
    /\ Len(previews) = 2
    /\ currentActivePreview = 2
    /\ previews[1].reviewState = "applied"
    /\ previews[1].isReverted
    /\ previews[1].inactive
    /\ ~previews[2].inactive
    /\ ~previews[2].acceptDisabled

(***************************************************************************)
(* Claims about the completion manager, under SpecLimiter.                 *)
(***************************************************************************)
(* the requests a loop can still settle: those queued and those in flight; *)
(* resolve is called nowhere but in processQueue                           *)
Held ==
    {rateLimiter.pendingRequests[k].id : k \in 1..Len(rateLimiter.pendingRequests)}
        \cup {loops[l].request.id : l \in {j \in 1..Len(loops) : loops[j].pc = "fetch"}}

(* C8: every promise addToQueue returned is settled or can still be        *)
(* settled: its request is in pendingRequests or in flight, also after a   *)
(* newer request with another context key arrived and after reset().       *)
C8_PromisesAreSettled ==
    \A id \in 1..Len(promises) : promises[id] = "pending" => id \in Held

HeldRequests ==
    {rateLimiter.pendingRequests[k] : k \in 1..Len(rateLimiter.pendingRequests)}
        \cup {loops[l].request : l \in {j \in 1..Len(loops) : loops[j].pc = "fetch"}}

(* C9: a request whose context key differs from the key of the most        *)
(* recently submitted request is never settled with a completion, whether  *)
(* it was waiting in the queue or in flight.                               *)
C9_StaleNeverDelivers ==
    [][\A request \in HeldRequests :
          (promises[request.id] = "pending" /\ promises'[request.id] = "completion")
              => contextKeyOf(request.text, request.cursorOffset)
                     = rateLimiter'.currentContext.contextKey]_vars

C11_BoundedPolling ==
    [][\A i \in DOMAIN submissions' :
        LET s == submissions'[i] IN
        /\ s.probes < MAX_PROBE_REQUESTS
        /\ s.iteration >= MAX_PROBE_REQUESTS => s.pc \in {"timer", "error"}
        /\ i \in DOMAIN submissions =>
            LET o == submissions[i] IN
            /\ o.pc = "timer" /\ o.iteration >= MAX_PROBE_REQUESTS /\ s # o =>
                s = [o EXCEPT !.pc = "error", !.error = 504]
            /\ o.pc = "error" => s = o]_vars

(* a submission was still in the queue at the last probe and reported 504 *)
C11_Witness ==
    \E i \in DOMAIN submissions :
        /\ submissions[i].pc = "error"
        /\ submissions[i].error = 504
        /\ submissions[i].iteration = MAX_PROBE_REQUESTS
        /\ submissions[i].probes = MAX_PROBE_REQUESTS - 1

(* C12: whichever response is processed, the preview it creates becomes    *)
(* currentActivePreview and every preview created before it is inactive,   *)
(* with its three buttons disabled and without handlers; this holds for    *)
(* two messages in flight at once and either order of arrival.             *)
C12_LastResponseWins ==
    [][Len(previews') = Len(previews) + 1 =>
          /\ currentActivePreview' = Len(previews')
          /\ ~previews'[Len(previews')].inactive
          /\ \A i \in 1..Len(previews) :
                /\ previews'[i].inactive
                /\ AllDisabled(previews'[i])
                /\ ~previews'[i].attached]_vars

(* both responses were processed, the one to the second message first *)
C12_Witness ==
    /\ Len(previews) = 2
    /\ inFlight = <<>>
    /\ previews[1].overtook
    /\ currentActivePreview = 2
    /\ previews[1].inactive /\ AllDisabled(previews[1])
    /\ ~previews[2].inactive /\ ~AllDisabled(previews[2])

(* the response holds an opening fence, a line break after it and a        *)
(* closing fence after that                                                *)
ContainsFencedBlock(r) ==
    \E i \in 1..Len(r), j \in 1..Len(r), k \in 1..Len(r) :
        i < j /\ j < k /\ r[i] = "F" /\ r[j] = "\n" /\ r[k] = "F"

(* the request k of inFlight is the one this step answers *)
Answered(k) ==
    /\ k \in 1..Len(inFlight)
    /\ inFlight[k].aiResponse # Null
    /\ inFlight' = Without(inFlight, k)

(* C13: a preview is created exactly by a response that holds a fenced     *)
(* code block, and it becomes the active one; a response without one       *)
(* creates no preview and leaves currentActivePreview, the previews with   *)
(* their button states and the editor text unchanged.                      *)
C13_PreviewIffCodeBlock ==
    [][/\ Len(previews') > Len(previews) =>
            \E k \in 1..Len(inFlight) :
                Answered(k) /\ ContainsFencedBlock(inFlight[k].aiResponse)
       /\ \A k \in 1..Len(inFlight) :
            Answered(k) =>
                IF ContainsFencedBlock(inFlight[k].aiResponse)
                THEN /\ Len(previews') = Len(previews) + 1
                     /\ currentActivePreview' = Len(previews')
                     /\ ~previews'[Len(previews')].inactive
                     /\ ~AllDisabled(previews'[Len(previews')])
                ELSE /\ previews' = previews
                     /\ currentActivePreview' = currentActivePreview
                     /\ editor' = editor]_vars

(* a preview made from a fenced block is active, and a response made of    *)
(* two fences on one line reached the composer after it                    *)
C13_Witness ==
    /\ Len(previews) = 1
    /\ currentActivePreview = 1
    /\ previews[1].proposedCode = <<<<"a">>, <<"c">>, EmptyLine>>
    /\ Len(inFlight) = 1
    /\ inFlight[1].aiResponse = <<"F", "b", "F">>

(* C14: the diff of a text with itself has no hunk, also for a text        *)
(* without a final newline and for the empty text.                         *)
C14_IdenticalTextsNoHunks ==
    dPhase # "input" /\ dOriginal = dProposed => dDiff = <<>>

(* the diff of a non-empty text without a final newline with itself *)
C14_Witness ==
    /\ dPhase = "proposed"
    /\ dOriginal = dProposed
    /\ dOriginal # EmptyText
    /\ ~EndsWithNewline(dOriginal)
    /\ dDiff = <<>>

(* the hunks as the diff library returns them, before cleanDiffOutput *)
RawHunks ==
    createTwoFilesPatch(EnsureTrailingNewline(dOriginal),
                        EnsureTrailingNewline(dProposed))

(* C15: no line of a hunk of a diff returned by generateDiff holds a fence *)
(* of three backticks.                                                     *)
C15_NoFenceInHunks ==
    dPhase # "input" =>
        \A h \in 1..Len(dDiff) : \A l \in 1..Len(dDiff[h].lines) :
            ~Includes(dDiff[h].lines[l], "F")

(* a line with a fence was part of a hunk before the diff was cleaned *)
C15_Witness ==
    /\ dPhase = "proposed"
    /\ \E h \in 1..Len(RawHunks) : \E l \in 1..Len(RawHunks[h].lines) :
          Includes(RawHunks[h].lines[l], "F")
    /\ \A h \in 1..Len(dDiff) : \A l \in 1..Len(dDiff[h].lines) :
          ~Includes(dDiff[h].lines[l], "F")

(* C16: whatever handleSuccess, handleFailure and reset calls were made,   *)
(* backoffTime.inline lies between minBackoffMs and maxBackoffMs.          *)
C16_BackoffBounded ==
    /\ rateLimiter.backoffTime >= minBackoffMs
    /\ rateLimiter.backoffTime <= maxBackoffMs

(* failures doubled the backoff up to the cap, and a success halved it to  *)
(* a value that is no power-of-two multiple of the minimum                 *)
C16_Witness ==
    /\ rateLimiter.backoffTime = maxBackoffMs \div 2
    /\ rateLimiter.consecutiveFailures = 0
    /\ maxBackoffMs \div 2 \notin {minBackoffMs, 2 * minBackoffMs, 4 * minBackoffMs}

(* this step is a call of an ls function from outside *)
ApiCall == lastCall'.seq # lastCall.seq /\ lastCall'.by = "api"

(* C17: an ls.get(k) made right after an ls.set(k, v) with v a string or   *)
(* an object, the storage not failing in either call, returns a value      *)
(* equal to v.                                                             *)
C17_StorageRoundTrip ==
    [][/\ lastCall.by = "api" /\ lastCall.op = "set" /\ ~lastCall.failed
       /\ lastCall.value.type \in {"string", "object"}
       /\ ApiCall /\ lastCall'.op = "get" /\ ~lastCall'.failed
       /\ lastCall'.key = lastCall.key
       => lastCall'.result = lastCall.value]_vars

(* C18: no call of ls.set, ls.del or ls.get throws; while the storage      *)
(* throws on every call, ls.set and ls.del leave the stored entries as     *)
(* they are and ls.get returns null.                                       *)
C18_StorageNeverThrows ==
    [][ApiCall =>
          /\ ~lastCall'.threw
          /\ lastCall'.failed =>
                /\ localStorage' = localStorage
                /\ lastCall'.op = "get" => lastCall'.result = JsNull]_vars

(* ls.set was called with an object while the storage was failing, an      *)
(* entry being stored under that key                                       *)
C18_Witness ==
    /\ lastCall.by = "api"
    /\ lastCall.failed
    /\ lastCall.op = "set"
    /\ lastCall.value.type = "object"
    /\ ~lastCall.threw
    /\ localStorage[lastCall.key].has

(* the theme name theme.get finds in a storage that works *)
StoredTheme(store) ==
    IF store[ThemeKey].has THEN store[ThemeKey].item[1] ELSE DEFAULT_THEME

(* what the toggle sequence makes of the current theme name *)
ToggleRule(current, new, sys) ==
    /\ new # current
    /\ current = "system" => new = Opposite(sys)
    /\ current \in {"light", "dark"} =>
          new = IF sys = current THEN "system" ELSE Opposite(current)

ToggleStep == lastCall'.seq # lastCall.seq /\ lastCall'.by = "toggle"

ThreeFailuresInARow ==
    /\ resets = 0
    /\ Len(promises) >= consecutiveFailuresBeforeBackoff
    /\ \A i \in 1..consecutiveFailuresBeforeBackoff : promises[i] = "empty"

(* C20: once consecutiveFailuresBeforeBackoff requests in a row have ended *)
(* in failure, consecutiveFailures has reached that number and             *)
(* canMakeRequest returns false.                                           *)
C20_FailureBackoff ==
    ThreeFailuresInARow =>
        /\ rateLimiter.consecutiveFailures >= consecutiveFailuresBeforeBackoff
        /\ ~canMakeRequest(rateLimiter, now)

(* C21: whenever no chat sendMessage call is in progress, messageHistory   *)
(* holds at most MAX_MESSAGES entries, whatever the outcomes of the calls  *)
(* were.                                                                   *)
C21_HistoryBounded ==
    chatCalls = <<>> => Len(messageHistory) <= MAX_MESSAGES

(* the projection reads lines[0] .. lines[currentLine - 1] in turn, so all *)
(* its indexes lie inside the text iff the last one does                   *)
IndexesInside(originalCode, diff) ==
    ProjectHunks(diff, originalCode, [result |-> <<>>, currentLine |-> 0]).currentLine
        <= Len(originalCode)

(* preview i goes from composer view to source view in this step *)
EntersSourceView(i) ==
    /\ i \in 1..Len(previews)
    /\ ~previews[i].isInSourceView
    /\ previews'[i].isInSourceView

(* C22: whenever View in Source projects the diff of a preview, the editor *)
(* content it reads (originalCode) is the content read when the message    *)
(* was sent (currentCode), and every line index the projection uses lies   *)
(* inside that text.                                                       *)
C22_ProjectedOntoItsSource ==
    [][\A i \in 1..Len(previews) :
          EntersSourceView(i) =>
              /\ previews'[i].originalCode = previews'[i].currentCode
              /\ IndexesInside(previews'[i].originalCode, previewDiff(previews'[i]))]_vars

(* how the code that reads a hunk classifies a line: startsWith('+'),      *)
(* startsWith('-'), or neither                                             *)
TagOf(line) ==
    IF StartsWith(line, "+") THEN "added"
    ELSE IF StartsWith(line, "-") THEN "removed"
    ELSE "context"

(* the lines of a hunk that are not notices, in their order *)
WithoutNotices(hl) == SelectSeq(hl, LAMBDA l : ~Includes(l, "N"))

(* C23: cleanDiffOutput keeps the hunks, the number and order of the lines *)
(* of each hunk apart from 'No newline at end of file' notices, and every  *)
(* line is classified after cleaning as it was before: added, removed or   *)
(* context.                                                                *)
C23_CleaningKeepsTags ==
    dPhase # "input" =>
        /\ Len(dDiff) = Len(RawHunks)
        /\ \A h \in 1..Len(RawHunks) :
              LET before == WithoutNotices(RawHunks[h].lines)
                  after  == dDiff[h].lines
              IN  /\ Len(after) = Len(before)
                  /\ \A l \in 1..Len(before) : TagOf(after[l]) = TagOf(before[l])

(* a submission that has reached neither handleResult nor handleRunError *)
Pending(sub) == sub.pc \notin {"result", "error"}

(* this step is a run() call that starts a submission *)
StartsSubmission == Len(submissions') > Len(submissions)

(* C24: while a submission started by run() has reached neither            *)
(* handleResult nor handleRunError, no run() call starts another one.      *)
C24_RunsDoNotOverlap ==
    [][StartsSubmission =>
          \A i \in 1..Len(submissions) : ~Pending(submissions[i])]_vars

(* C25: whenever the run button is disabled, it is eventually enabled      *)
(* again, given that every HTTP request completes and every timer fires.   *)
C25_RunButtonReleased ==
    runBtnDisabled ~> ~runBtnDisabled

(* the text the editor held before the diff of preview p was displayed in  *)
(* it or applied to it: what View in Source saved while the marker view is *)
(* shown, what the editor held at the last Apply while the proposed code   *)
(* is applied, and the editor content itself otherwise                     *)
TextBeforeDiff(p, ed) ==
    IF p.isInSourceView THEN p.originalCode
    ELSE IF p.reviewState = "applied" THEN p.preApply
    ELSE ed

(* preview i tells the user 'Changes rejected.' in this step *)
RejectStep(i) ==
    /\ i \in 1..Len(previews)
    /\ previews[i].reviewState # "rejected"
    /\ previews'[i].reviewState = "rejected"

(* C26: after Reject on a diff the editor holds the text it held before    *)
(* that diff was displayed in it or applied to it, in composer view and in *)
(* source view.                                                            *)
C26_RejectRestoresEditor ==
    [][\A i \in 1..Len(previews) :
          RejectStep(i) => editor' = TextBeforeDiff(previews[i], editor)]_vars

(* preview i goes from source view back to composer view in this step *)
LeavesSourceView(i) ==
    /\ i \in 1..Len(previews)
    /\ previews[i].isInSourceView
    /\ ~previews'[i].isInSourceView

(* C27: for a diff in the proposed state, View in Editor leaves the editor *)
(* with the text it held just before the View in Source that put the       *)
(* marker view in, whatever the user typed into the marker view.           *)
C27_ViewRoundTrip ==
    [][\A i \in 1..Len(previews) :
          (LeavesSourceView(i) /\ previews[i].reviewState = "proposed")
              => editor' = previews[i].preView]_vars

(* C27 witness: the only preview is back in composer view, still proposed; *)
(* the user typed once, and the editor holds the initial text again, which *)
(* is the text View in Source found: the typing went into the marker view  *)
C27_Witness ==
    /\ Len(previews) = 1
    /\ previews[1].reviewState = "proposed"
    /\ ~previews[1].isInSourceView
    /\ previews[1].acceptHandler = "restored"
    /\ edits = 1
    /\ previews[1].preView = InitialText
    /\ editor = InitialText

====
